---- MODULE Spec2Model ----
(***************************************************************************)
(* iamlive proxy (src/proxy.go): the request handler registered by         *)
(* createProxy, handleAWSRequest, flatten and resolvePropertyName.         *)
(*                                                                         *)
(* Go strings are TLA+ strings; TLC evaluates Len, SubSeq, Head, Tail and  *)
(* \o on them, so slicing, splitting and case folding are computed         *)
(* character by character as the Go code computes them.                    *)
(***************************************************************************)
EXTENDS Integers, Sequences, FiniteSets, TLC

VARIABLES
    callLog,   \* the process-wide call log (callLog, appended at proxy.go:403)
    pc,        \* pc[h]: where request-handler goroutine h stands
    req,       \* req[h]: the request h is handling
    entry,     \* entry[h]: the Entry h built at proxy.go:403 (<<>>: none, <<e>>: e)
    snap,      \* snap[h]: the callLog value h loaded for its append
    fwd,       \* fwd[h]: the body h handed on for forwarding (<<>>: none yet)
    rCase,     \* resolver run: name of the (input shape, shape table) pair
    rKey,      \* resolver run: the search key
    rRets,     \* resolver run: outcomes of the runs made so far with rKey
    rFrom      \* resolver run: <<K>> when rKey is a path that K resolved to

vars == <<callLog, pc, req, entry, snap, fwd, rCase, rKey, rRets, rFrom>>

handlerVars == <<callLog, pc, req, entry, snap, fwd>>
resolverVars == <<rCase, rKey, rRets, rFrom>>

(***************************************************************************)
(* Bounds of the model.                                                    *)
(***************************************************************************)
\* Request-handler goroutines running at once.
NumHandlers == 2
\* Runs of the resolver made on one (shape, key) pair.
MaxRuns == 2
\* Recursion depth past which a walk of resolvePropertyName is a walk that
\* never returns.  Every step down a structure member ("." and a name of at
\* least one character) or a list element ("[]") lengthens locationPath by
\* at least two characters, and a leaf matches only when locationPath, less
\* at most three characters, equals the search key; so at depth d no leaf
\* matches a key shorter than 2d - 3, and a walk still descending at a depth
\* greater than the number of nodes of the shape table is inside a reference
\* cycle.  MaxDepth exceeds both for every key and shape table below.
MaxDepth == 16

(***************************************************************************)
(* Strings.                                                                *)
(***************************************************************************)
Upper == "ABCDEFGHIJKLMNOPQRSTUVWXYZ"
Lower == "abcdefghijklmnopqrstuvwxyz"
Digits == {"0", "1", "2", "3", "4", "5", "6", "7", "8", "9"}

Char(s, i) == SubSeq(s, i, i)

\* s[from:] with a 0-based Go index
SliceFrom(s, from) == SubSeq(s, from + 1, Len(s))

\* s[:to] with a 0-based Go index
SliceTo(s, to) == SubSeq(s, 1, to)

HasPrefix(s, p) == Len(s) >= Len(p) /\ SubSeq(s, 1, Len(p)) = p

HasSuffix(s, p) == Len(s) >= Len(p) /\ SubSeq(s, Len(s) - Len(p) + 1, Len(s)) = p

\* unicode.ToLower on one ASCII character
LowerChar(c) ==
    IF \E i \in 1..26 : Char(Upper, i) = c
    THEN Char(Lower, CHOOSE i \in 1..26 : Char(Upper, i) = c)
    ELSE c

RECURSIVE ToLower(_)
\* strings.ToLower, character by character (the string is halved to keep the
\* evaluation shallow)
ToLower(s) ==
    IF Len(s) <= 1 THEN LowerChar(s)
    ELSE ToLower(SliceTo(s, Len(s) \div 2)) \o ToLower(SliceFrom(s, Len(s) \div 2))

\* strings.Index(s, sep): 0-based index of the first sep in s, -1 when absent
Index(s, sep) ==
    IF \E i \in 0..(Len(s) - Len(sep)) : HasPrefix(SliceFrom(s, i), sep)
    THEN CHOOSE i \in 0..(Len(s) - Len(sep)) :
            /\ HasPrefix(SliceFrom(s, i), sep)
            /\ \A j \in 0..(i - 1) : ~HasPrefix(SliceFrom(s, j), sep)
    ELSE -1

RECURSIVE Split(_, _)
\* strings.Split(s, sep) for a non-empty sep
Split(s, sep) ==
    IF Index(s, sep) = -1 THEN <<s>>
    ELSE <<SliceTo(s, Index(s, sep))>> \o Split(SliceFrom(s, Index(s, sep) + Len(sep)), sep)

\* number of leading decimal digits of s
RECURSIVE DigitRun(_)
DigitRun(s) == IF s # "" /\ Head(s) \in Digits THEN 1 + DigitRun(Tail(s)) ELSE 0

(***************************************************************************)
(* ServiceStructure (proxy.go:189-196).  Member is <<>> for a nil pointer  *)
(* and <<m>> for a pointer to m; Members is a function from member names.  *)
(***************************************************************************)
ZeroStructure ==
    [Shape |-> "", Type |-> "", Member |-> <<>>, Members |-> <<>>,
     LocationName |-> "", QueryName |-> ""]

Ref(shape) == [ZeroStructure EXCEPT !.Shape = shape]
Scalar(type) == [ZeroStructure EXCEPT !.Type = type]
List(member) == [ZeroStructure EXCEPT !.Type = "list", !.Member = <<member>>]
Structure(members) == [ZeroStructure EXCEPT !.Type = "structure", !.Members = members]
WithLocationName(s, name) == [s EXCEPT !.LocationName = name]
WithQueryName(s, name) == [s EXCEPT !.QueryName = name]

\* shapes[name] of a Go map: the zero value for a missing key
ShapeAt(shapes, name) == IF name \in DOMAIN shapes THEN shapes[name] ELSE ZeroStructure

(***************************************************************************)
(* resolvePropertyName (proxy.go:416-473).  Go ranges over obj.Members in  *)
(* an unspecified order that may differ from run to run, so the operator   *)
(* yields the set of outcomes over all visiting orders.  An outcome is a   *)
(* returned string, a run-time panic, or a walk that never returns.        *)
(***************************************************************************)
Returned(ret) == [kind |-> "return", ret |-> ret]
Panicked == [kind |-> "panic", ret |-> ""]
Overflowed == [kind |-> "overflow", ret |-> ""]

\* proxy.go:417: searchProp[len(searchProp)-2:] is out of range below two characters
SearchPropPanics(searchProp) == Len(searchProp) < 2

\* proxy.go:417-419: trim trailing []
TrimSearchProp(searchProp) ==
    IF SliceFrom(searchProp, Len(searchProp) - 2) = "[]"
    THEN SliceTo(searchProp, Len(searchProp) - 2)
    ELSE searchProp

\* proxy.go:421-427
DerefShape(obj, shapes) ==
    IF obj.Shape # ""
    THEN [ShapeAt(shapes, obj.Shape) EXCEPT
            !.LocationName = obj.LocationName, !.QueryName = obj.QueryName]
    ELSE obj

\* proxy.go:434-437: newPath of a structure member
MemberPath(path, k) == IF path = "" THEN k ELSE path \o "." \o k

\* MemberLocationPath with the locationName branch (proxy.go:442-443) left out
MemberLocationPathNoLocationName(locationPath, k, v) ==
    IF v.QueryName # "" THEN locationPath \o "." \o v.QueryName
    ELSE locationPath \o "." \o k

\* proxy.go:439-444: newLocationPath of a structure member
MemberLocationPath(locationPath, k, v) ==
    IF v.QueryName # "" THEN locationPath \o "." \o v.QueryName
    ELSE IF v.LocationName # "" THEN locationPath \o "." \o v.LocationName
    ELSE locationPath \o "." \o k

\* proxy.go:452-457: the wire path a leaf is compared by
LeafLocationPath(locationPath) ==
    LET trimmed == IF Len(locationPath) > 2 /\ SliceFrom(locationPath, Len(locationPath) - 2) = "[]"
                   THEN SliceTo(locationPath, Len(locationPath) - 2)
                   ELSE locationPath
    IN  IF Len(trimmed) > 0 /\ Char(trimmed, 1) = "." THEN SliceFrom(trimmed, 1) ELSE trimmed

\* LeafReturn with the search key compared as written, not lower-cased
LeafReturnCaseSensitiveKey(path, locationPath, searchProp) ==
    IF ToLower(LeafLocationPath(locationPath)) = searchProp THEN path ELSE ""

\* proxy.go:459-461
LeafReturn(path, locationPath, searchProp) ==
    IF ToLower(LeafLocationPath(locationPath)) = ToLower(searchProp) THEN path ELSE ""

OpaqueTypes == {"boolean", "timestamp", "blob", "map"}
LeafTypes == {"long", "float", "integer", "", "string"}

\* proxy.go:446-449: the first non-empty result over the members, in any order;
\* subs holds the outcome set of each member's call
FirstNonEmpty(subs) ==
    UNION {s \ {Returned("")} : s \in subs}
        \cup (IF \A s \in subs : Returned("") \in s THEN {Returned("")} ELSE {})

RECURSIVE resolvePropertyName(_, _, _, _, _, _)
resolvePropertyName(obj, searchProp, path, locationPath, shapes, depth) ==
    IF SearchPropPanics(searchProp) THEN {Panicked}
    ELSE IF depth > MaxDepth THEN {Overflowed}
    ELSE
    LET sp == TrimSearchProp(searchProp)
        o == DerefShape(obj, shapes)
    IN  IF o.Type \in OpaqueTypes THEN {Returned("")}
        ELSE IF o.Type = "structure" THEN
            LET subs == {resolvePropertyName(o.Members[k], sp, MemberPath(path, k),
                            MemberLocationPath(locationPath, k, o.Members[k]),
                            shapes, depth + 1) : k \in DOMAIN o.Members}
            IN  FirstNonEmpty(subs)
        ELSE IF o.Type \in LeafTypes THEN {Returned(LeafReturn(path, locationPath, sp))}
        ELSE IF o.Type = "list" THEN
            IF o.Member = <<>> THEN {Panicked}
            ELSE resolvePropertyName(o.Member[1], sp, path \o "[]", locationPath \o "[]",
                                     shapes, depth + 1)
        ELSE {Returned("")}

(***************************************************************************)
(* Shapes the resolver is run on: an input shape and its shape table.      *)
(***************************************************************************)
NoShapes == <<>>

\* a list member whose element member carries a locationName
FiltersInput ==
    Structure(
        ("Filters" :> List(Structure(
            ("Name" :> WithLocationName(Scalar("string"), "FilterName"))
            @@ ("Values" :> List(Scalar("string"))))))
        @@ ("MaxResults" :> Scalar("integer")))

\* references into the shape table, with locationName and queryName overrides
Ec2Shapes ==
    ("Req" :> Structure(
        ("Filters" :> WithLocationName(Ref("FilterList"), "Filter"))
        @@ ("DryRun" :> WithQueryName(WithLocationName(Ref("Bool"), "dryRun"), "DryRun"))
        @@ ("NextToken" :> WithQueryName(Ref("Str"), "Token"))))
    @@ ("FilterList" :> List(WithLocationName(Ref("Filter"), "Filter")))
    @@ ("Filter" :> Structure(
        ("Name" :> Ref("Str"))
        @@ ("Values" :> WithLocationName(Ref("ValueList"), "Value"))))
    @@ ("ValueList" :> List(WithLocationName(Ref("Str"), "item")))
    @@ ("Str" :> Scalar("string"))
    @@ ("Bool" :> Scalar("boolean"))

\* no overrides anywhere
PlainInput ==
    Structure(
        ("Marker" :> Scalar("string"))
        @@ ("Tags" :> List(Structure(
            ("Key" :> Scalar("string")) @@ ("Value" :> Scalar("")))))
        @@ ("Names" :> List(Scalar("string")))
        @@ ("Limit" :> Scalar("long"))
        @@ ("Force" :> Scalar("boolean"))
        @@ ("Attrs" :> Scalar("map")))

\* references and nested structures, no overrides anywhere
RefShapes ==
    ("AssumeRoleRequest" :> Structure(
        ("RoleArn" :> Ref("Str"))
        @@ ("Policy" :> Structure(("Doc" :> Ref("Str")) @@ ("Size" :> Scalar("integer"))))
        @@ ("Tags" :> Ref("TagList"))))
    @@ ("TagList" :> List(Ref("Tag")))
    @@ ("Tag" :> Structure(("Key" :> Ref("Str")) @@ ("Value" :> Ref("Str"))))
    @@ ("Str" :> Scalar("string"))

\* two members whose wire paths compare equal to one key
CollideInput ==
    Structure(
        ("Owner" :> WithLocationName(Scalar("string"), "Name"))
        @@ ("Name" :> Scalar("string"))
        @@ ("Ab" :> Scalar("string"))
        @@ ("AB" :> Scalar("string")))

\* each member's override is the other member's name
SwapInput ==
    Structure(
        ("Aa" :> WithLocationName(Scalar("string"), "Bb"))
        @@ ("Bb" :> WithLocationName(Scalar("string"), "Aa")))

\* a structure member that refers back to its enclosing shape
CycleShapes ==
    ("Node" :> Structure(("Next" :> Ref("Node")) @@ ("Val" :> Scalar("string"))))
    @@ ("Loop" :> List(Ref("Loop")))

\* a list of lists
NestedInput ==
    Structure(
        ("Mx" :> List(List(Scalar("string"))))
        @@ ("Size" :> Scalar("float")))

\* members with one-character names
ShortInput ==
    Structure(
        ("A" :> List(Scalar("string")))
        @@ ("B" :> Scalar("integer")))

ResolveCases ==
    ("filters" :> [input |-> FiltersInput, shapes |-> NoShapes])
    @@ ("ec2" :> [input |-> Ref("Req"), shapes |-> Ec2Shapes])
    @@ ("plain" :> [input |-> PlainInput, shapes |-> NoShapes])
    @@ ("refs" :> [input |-> Ref("AssumeRoleRequest"), shapes |-> RefShapes])
    @@ ("collide" :> [input |-> CollideInput, shapes |-> NoShapes])
    @@ ("swap" :> [input |-> SwapInput, shapes |-> NoShapes])
    @@ ("cycle" :> [input |-> Ref("Node"), shapes |-> CycleShapes])
    @@ ("listcycle" :> [input |-> Structure(("Items" :> Ref("Loop"))), shapes |-> CycleShapes])
    @@ ("nested" :> [input |-> NestedInput, shapes |-> NoShapes])
    @@ ("short" :> [input |-> ShortInput, shapes |-> NoShapes])

SearchKeys ==
    {"FilterName[]", "Filters[].FilterName", "Filters[].Name", "Filters[].Values[]",
     "Filter[].Name", "Filter[].Value[]", "DryRun", "Token", "MaxResults",
     "Marker", "marker", "Tags[].Key", "TAGS[].value", "Names[]", "Names", "Force", "Attrs",
     "Name", "Owner", "ab", "Bb", "Aa", "Next.Val", "Next.Next.Val", "Val", "Items[]", "Zz",
     "A[]", "A[][]", "B", "B[]", "B[][]", "Mx[][]", "Mx[][][][][]", "Size",
     "rolearn", "Policy.Doc", "policy.size[]"}

\* the resolver call of handleAWSRequest (proxy.go:325, proxy.go:381)
Resolve(case, key) ==
    resolvePropertyName(ResolveCases[case].input, key, "", "", ResolveCases[case].shapes, 0)

(***************************************************************************)
(* The resolver run on its own: a shape and a key are drawn, the resolver  *)
(* is run on them MaxRuns times, and a path it returned may be fed back as *)
(* the search key.                                                         *)
(***************************************************************************)
HandlersIdle ==
    /\ callLog = <<>>
    /\ pc = [h \in 1..NumHandlers |-> "idle"]
    /\ req = [h \in 1..NumHandlers |-> <<>>]
    /\ entry = [h \in 1..NumHandlers |-> <<>>]
    /\ snap = [h \in 1..NumHandlers |-> <<>>]
    /\ fwd = [h \in 1..NumHandlers |-> <<>>]

ResolveInit ==
    /\ HandlersIdle
    /\ rCase \in DOMAIN ResolveCases
    /\ rKey \in SearchKeys
    /\ rRets = <<>>
    /\ rFrom = <<>>

RunResolver ==
    /\ Len(rRets) < MaxRuns
    /\ \E out \in Resolve(rCase, rKey) : rRets' = Append(rRets, out)
    /\ UNCHANGED <<rCase, rKey, rFrom>>
    /\ UNCHANGED handlerVars

ReResolve ==
    /\ rFrom = <<>>
    /\ rRets # <<>>
    /\ rRets[Len(rRets)].kind = "return"
    /\ rRets[Len(rRets)].ret # ""
    /\ rKey' = rRets[Len(rRets)].ret
    /\ rFrom' = <<rKey>>
    /\ rRets' = <<>>
    /\ UNCHANGED rCase
    /\ UNCHANGED handlerVars

ResolveNext == RunResolver \/ ReResolve

SpecResolve == ResolveInit /\ [][ResolveNext]_vars

(***************************************************************************)
(* Go maps built while a request is handled: functions from strings, <<>>  *)
(* when empty.                                                             *)
(***************************************************************************)
MapGet(m, k, zero) == IF k \in DOMAIN m THEN m[k] ELSE zero

MapPut(m, k, v) == [x \in (DOMAIN m) \cup {k} |-> IF x = k THEN v ELSE m[x]]

\* m[k] = append(m[k], vs...)
MapAppend(m, k, vs) == MapPut(m, k, MapGet(m, k, <<>>) \o vs)

\* the orders in which a range loop may visit the keys S of a Go map
Orders(S) ==
    {p \in [1..Cardinality(S) -> S] : \A i, j \in 1..Cardinality(S) : i # j => p[i] # p[j]}

(***************************************************************************)
(* The model registry: serviceDefinitions (proxy.go:33), filled once by    *)
(* readServiceFiles before the proxy serves.                               *)
(***************************************************************************)
ZeroOperation == [Http |-> [Method |-> "", RequestURI |-> ""], Input |-> ZeroStructure]

ZeroServiceDefinition ==
    [Metadata |-> [EndpointPrefix |-> "", Protocol |-> "", ServiceID |-> ""],
     Operations |-> <<>>, Shapes |-> <<>>]

Operation(method, requestUri, input) ==
    [Http |-> [Method |-> method, RequestURI |-> requestUri], Input |-> input]

ServiceDefinition(prefix, protocol, serviceId, operations, shapes) ==
    [Metadata |-> [EndpointPrefix |-> prefix, Protocol |-> protocol, ServiceID |-> serviceId],
     Operations |-> operations, Shapes |-> shapes]

\* serviceDef.Operations[action] of a Go map: the zero value for a missing key
OperationAt(def, action) == MapGet(def.Operations, action, ZeroOperation)

LambdaDef ==
    ServiceDefinition("lambda", "rest-json", "Lambda",
        ("Invoke" :> Operation("POST", "/functions/{FunctionName}/invocations",
                        Structure(("FunctionName" :> Scalar("string")))))
        @@ ("GetX" :> Operation("GET", "/a/{X}", PlainInput))
        @@ ("GetY" :> Operation("GET", "/a/{Y}", PlainInput)),
        NoShapes)

DynamoDef == ServiceDefinition("dynamodb", "json", "DynamoDB", <<>>, NoShapes)

Ec2OldDef ==
    ServiceDefinition("ec2", "ec2", "EC2 2015",
        ("DescribeInstances" :> Operation("POST", "/", Structure(<<>>))), NoShapes)

Ec2Def ==
    ServiceDefinition("ec2", "ec2", "EC2",
        ("DescribeInstances" :> Operation("POST", "/", Ec2Shapes["Req"])), Ec2Shapes)

StsDef ==
    ServiceDefinition("sts", "query", "STS",
        ("GetCallerIdentity" :> Operation("POST", "/", Structure(<<>>)))
        @@ ("AssumeRole" :> Operation("POST", "/", Ref("AssumeRoleRequest"))),
        ("AssumeRoleRequest" :> Structure(("RoleArn" :> Scalar("string")))))

S3Def == ServiceDefinition("s3", "rest-xml", "S3", <<>>, NoShapes)

serviceDefinitions == <<LambdaDef, DynamoDef, Ec2OldDef, Ec2Def, StsDef, S3Def>>

(***************************************************************************)
(* Library calls of handleAWSRequest.                                      *)
(***************************************************************************)
\* regexp.MatchString(`^.*\.amazonaws\.com(?:\.cn)?$`, host) (proxy.go:158)
isAWSHostname(host) ==
    HasSuffix(host, ".amazonaws.com") \/ HasSuffix(host, ".amazonaws.com.cn")

RECURSIVE ReplaceIndexed(_, _)
\* regexp.MustCompile(prefix + `[0-9]+`).ReplaceAllString(s, "[]") for a
\* literal prefix: every leftmost run "prefix digits" becomes "[]"
ReplaceIndexed(s, prefix) ==
    IF s = "" THEN ""
    ELSE IF HasPrefix(s, prefix) /\ DigitRun(SliceFrom(s, Len(prefix))) > 0
    THEN "[]" \o ReplaceIndexed(
            SliceFrom(s, Len(prefix) + DigitRun(SliceFrom(s, Len(prefix)))), prefix)
    ELSE Head(s) \o ReplaceIndexed(Tail(s), prefix)

\* proxy.go:322-323, proxy.go:378-379
normalizedK(k) == ReplaceIndexed(ReplaceIndexed(k, ".member."), ".")

HexDigits == Digits \cup {"a", "b", "c", "d", "e", "f", "A", "B", "C", "D", "E", "F"}

\* url.QueryUnescape fails on a "%" that two hex digits do not follow.  The
\* requests below hold no valid escape and no "+", which it would decode.
BadEscape(s) ==
    \E i \in 1..Len(s) :
        /\ Char(s, i) = "%"
        /\ ~(i + 2 <= Len(s) /\ Char(s, i + 1) \in HexDigits /\ Char(s, i + 2) \in HexDigits)

\* one "key=value" piece of a query string: its key and its value
PairOf(piece) ==
    IF Index(piece, "=") = -1 THEN <<piece, "">>
    ELSE <<SliceTo(piece, Index(piece, "=")), SliceFrom(piece, Index(piece, "=") + 1)>>

\* the pieces of a query string that url.ParseQuery rejects
BadPiece(piece) == Index(piece, ";") # -1 \/ BadEscape(piece)

\* url.ParseQuery(query): the values of every key, in the order read, and
\* whether a piece was rejected
ParseQuery(query) ==
    LET pieces == Split(query, "&")
        kept == SelectSeq(pieces, LAMBDA x : x # "" /\ ~BadPiece(x))
        keys == {PairOf(kept[i])[1] : i \in 1..Len(kept)}
        valuesOf(k) ==
            LET mine == SelectSeq(kept, LAMBDA x : PairOf(x)[1] = k)
            IN  [i \in 1..Len(mine) |-> PairOf(mine[i])[2]]
    IN  [err |-> \E i \in 1..Len(pieces) : pieces[i] # "" /\ BadPiece(pieces[i]),
         vals |-> [k \in keys |-> valuesOf(k)]]

\* url.ParseRequestURI(uri) for a request URI without a scheme: it must
\* start with "/"; Path and RawQuery are split at the first "?".  The
\* requests below hold no escape in the path.
ParseRequestURI(uri) ==
    IF uri = "" \/ Head(uri) # "/" THEN [err |-> TRUE, Path |-> "", RawQuery |-> ""]
    ELSE IF Index(uri, "?") = -1 THEN [err |-> FALSE, Path |-> uri, RawQuery |-> ""]
    ELSE [err |-> FALSE, Path |-> SliceTo(uri, Index(uri, "?")),
          RawQuery |-> SliceFrom(uri, Index(uri, "?") + 1)]

\* decoded JSON values (interface{} after json.Unmarshal)
JObject(m) == [t |-> "object", m |-> m, a |-> <<>>, s |-> ""]
JArray(a) == [t |-> "array", m |-> <<>>, a |-> a, s |-> ""]
JString(s) == [t |-> "string", m |-> <<>>, a |-> <<>>, s |-> s]
JNumber(s) == [t |-> "number", m |-> <<>>, a |-> <<>>, s |-> s]
JNull == [t |-> "null", m |-> <<>>, a |-> <<>>, s |-> ""]

\* the request bodies below that are JSON documents, and their values
JsonDocuments ==
    ("{\"x\":\"y\"}" :> JObject(("x" :> JString("y"))))
    @@ ("{\"a\":{\"b\":[1,2]},\"a.b[]\":null}" :>
            JObject(("a" :> JObject(("b" :> JArray(<<JNumber("1"), JNumber("2")>>))))
                    @@ ("a.b[]" :> JNull)))
    @@ ("5" :> JNumber("5"))

\* json.Unmarshal(body, &bodyJSON): an error on every body that is no JSON document
jsonUnmarshal(body) ==
    IF body \in DOMAIN JsonDocuments
    THEN [err |-> FALSE, bodyJSON |-> JsonDocuments[body]]
    ELSE [err |-> TRUE, bodyJSON |-> JNull]

\* fmt.Sprintf("%v", v) of a decoded scalar: nil prints as <nil>; a float64
\* holding a small integer prints its digits
Sprintf(v) == IF v.t = "null" THEN "<nil>" ELSE v.s

(***************************************************************************)
(* flatten (proxy.go:236-268).  Go ranges over a decoded object in an      *)
(* unspecified order, so flatten yields the set of maps it may leave in    *)
(* flatMap.  Its error (a root that is neither object nor array) leaves    *)
(* flatMap as it was; both callers discard it (proxy.go:345, proxy.go:356).*)
(***************************************************************************)
RECURSIVE flatten(_, _, _, _)
RECURSIVE assign(_, _, _)
RECURSIVE FlattenObject(_, _, _, _, _)
RECURSIVE FlattenArray(_, _, _, _)

\* proxy.go:237-248
assign(flatMap, newKey, v) ==
    IF v.t \in {"object", "array"} THEN flatten(FALSE, flatMap, v, newKey)
    ELSE {MapAppend(flatMap, newKey, <<Sprintf(v)>>)}

\* proxy.go:252-258: the keys still to visit, visited in any order
FlattenObject(top, flatMaps, m, keys, prefix) ==
    IF keys = {} THEN flatMaps
    ELSE UNION {FlattenObject(top,
                    UNION {assign(fm, IF top THEN k ELSE prefix \o "." \o k, m[k]) : fm \in flatMaps},
                    m, keys \ {k}, prefix) : k \in keys}

\* proxy.go:260-262: the elements from index i on, in order
FlattenArray(flatMaps, a, i, prefix) ==
    IF i > Len(a) THEN flatMaps
    ELSE FlattenArray(UNION {assign(fm, prefix \o "[]", a[i]) : fm \in flatMaps}, a, i + 1, prefix)

flatten(top, flatMap, nested, prefix) ==
    IF nested.t = "object" THEN FlattenObject(top, {flatMap}, nested.m, DOMAIN nested.m, prefix)
    ELSE IF nested.t = "array" THEN FlattenArray({flatMap}, nested.a, 1, prefix)
    ELSE {flatMap}

(***************************************************************************)
(* handleAWSRequest (proxy.go:270-414).  An outcome of the decoding is an  *)
(* action with its params and uriparams ("decoded"), an early return       *)
(* ("return"), a run-time panic, or a resolver walk that never returns.    *)
(***************************************************************************)
Decoded(action, params, uriparams) ==
    [kind |-> "decoded", action |-> action, params |-> params, uriparams |-> uriparams]

Undecoded(kind) == [kind |-> kind, action |-> "", params |-> <<>>, uriparams |-> <<>>]

\* proxy.go:276
IsComHost(hostSplit) ==
    /\ Len(hostSplit) >= 2
    /\ hostSplit[Len(hostSplit)] = "com"
    /\ hostSplit[Len(hostSplit) - 1] = "amazonaws"

\* proxy.go:277-280 (hostSplit has three labels or more: the host matched
\* isAWSHostname)
EndpointPrefixOf(hostSplit) ==
    IF Len(hostSplit) > 3 THEN hostSplit[Len(hostSplit) - 3] ELSE hostSplit[Len(hostSplit) - 2]

\* proxy.go:274, proxy.go:281-285: the last definition with the prefix, the
\* zero ServiceDefinition when there is none
SelectServiceDef(endpointPrefix) ==
    LET matching == {i \in 1..Len(serviceDefinitions) :
                        serviceDefinitions[i].Metadata.EndpointPrefix = endpointPrefix}
    IN  IF matching = {} THEN ZeroServiceDefinition
        ELSE serviceDefinitions[CHOOSE i \in matching : \A j \in matching : j <= i]

\* proxy.go:396-401: regexp `\.(.+)\.amazonaws\.com(?:\.cn)?$`.  The match
\* starts at the first "." of the host and the group runs up to the suffix.
RegionOf(host) ==
    LET suffix == IF HasSuffix(host, ".amazonaws.com") THEN ".amazonaws.com"
                  ELSE IF HasSuffix(host, ".amazonaws.com.cn") THEN ".amazonaws.com.cn"
                  ELSE ""
        cut == Len(host) - Len(suffix)
        dot == Index(host, ".")
    IN  IF suffix # "" /\ dot # -1 /\ dot + 1 < cut THEN SubSeq(host, dot + 2, cut)
        ELSE "us-east-1"

\* a segment of a request-URI template that is one placeholder, `{name}`
IsPlaceholder(segment) ==
    Len(segment) >= 3 /\ Head(segment) = "{" /\ Char(segment, Len(segment)) = "}"

\* proxy.go:304-306: the anchored pattern built from the template matches the
\* path.  The templates of the registry hold no regexp metacharacter outside
\* their placeholders, and every placeholder fills a segment, so the match is
\* segment by segment: ([^/]+) for a placeholder, the text itself otherwise.
pathMatchSuccess(requestUri, path) ==
    LET t == Split(requestUri, "/")
        q == Split(path, "/")
    IN  /\ Len(t) = Len(q)
        /\ \A i \in 1..Len(t) :
            IF IsPlaceholder(t[i]) THEN q[i] # "" ELSE t[i] = q[i]

RECURSIVE BindPlaceholders(_, _, _, _)
\* proxy.go:310-316: uriparams[templateMatches[i][1]] = pathMatches[0][1:][i]
BindPlaceholders(t, q, i, uriparams) ==
    IF i > Len(t) THEN uriparams
    ELSE BindPlaceholders(t, q, i + 1,
            IF IsPlaceholder(t[i])
            THEN MapPut(uriparams, SubSeq(t[i], 2, Len(t[i]) - 1), q[i])
            ELSE uriparams)

RECURSIVE MatchOperations(_, _, _, _, _, _)
\* proxy.go:303-318: the operations visited in the given order; every
\* operation that matches sets action and adds its bindings to uriparams
MatchOperations(order, i, operations, method, path, acc) ==
    IF i > Cardinality(DOMAIN operations) THEN acc
    ELSE LET operationName == order[i]
             operation == operations[operationName]
         IN  MatchOperations(order, i + 1, operations, method, path,
                IF operation.Http.Method = method
                   /\ pathMatchSuccess(operation.Http.RequestURI, path)
                THEN [action |-> operationName,
                      uriparams |-> BindPlaceholders(Split(operation.Http.RequestURI, "/"),
                                                     Split(path, "/"), 1, acc.uriparams)]
                ELSE acc)

RECURSIVE ResolveParams(_, _, _, _, _, _)
\* proxy.go:321-335, proxy.go:376-392: the keys of vals visited in the given
\* order, each normalized, resolved and its values added to params
ResolveParams(order, i, vals, input, shapes, params) ==
    IF i > Len(order) THEN {Decoded("", params, <<>>)}
    ELSE LET k == order[i]
             outs == resolvePropertyName(input, normalizedK(k), "", "", shapes, 0)
         IN  UNION {
                IF out.kind # "return" THEN {Undecoded(out.kind)}
                ELSE ResolveParams(order, i + 1, vals, input, shapes,
                        MapAppend(params,
                                  IF out.ret # "" THEN out.ret ELSE normalizedK(k),
                                  vals[k]))
                : out \in outs}

\* proxy.go:294-346
DecodeRestJson(serviceDef, r) ==
    LET urlobj == ParseRequestURI(r.RequestURI)
        vals == ParseQuery(urlobj.RawQuery).vals
        matched == {MatchOperations(order, 1, serviceDef.Operations, r.Method, urlobj.Path,
                        [action |-> "*", uriparams |-> <<>>])
                    : order \in Orders(DOMAIN serviceDef.Operations)}
        withBody(action, params, uriparams) ==
            IF Len(r.Body) > 0
            THEN IF jsonUnmarshal(r.Body).err THEN {Undecoded("return")}
                 ELSE {Decoded(action, fm, uriparams)
                        : fm \in flatten(TRUE, params, jsonUnmarshal(r.Body).bodyJSON, "")}
            ELSE {Decoded(action, params, uriparams)}
    IN  IF urlobj.err THEN {Undecoded("return")}
        ELSE UNION {
                UNION {
                    UNION {
                        IF q.kind # "decoded" THEN {q}
                        ELSE withBody(m.action, q.params, m.uriparams)
                        : q \in ResolveParams(order, 1, vals,
                                    OperationAt(serviceDef, m.action).Input,
                                    serviceDef.Shapes, <<>>)}
                    : order \in Orders(DOMAIN vals)}
                : m \in matched}

\* proxy.go:347-362
DecodeJson(serviceDef, r) ==
    LET decoded == jsonUnmarshal(r.Body)
        amzTargetHeader == r.Target
    IN  IF decoded.err THEN {Undecoded("return")}
        ELSE IF amzTargetHeader = "" THEN {Undecoded("return")}
        ELSE IF Len(Split(amzTargetHeader, ".")) < 2 THEN {Undecoded("panic")}
        ELSE {Decoded(Split(amzTargetHeader, ".")[2], fm, <<>>)
                : fm \in flatten(TRUE, <<>>, decoded.bodyJSON, "")}

\* proxy.go:363-394
DecodeQuery(serviceDef, r) ==
    LET parsed == ParseQuery(r.Body)
        vals == parsed.vals
        action == vals["Action"][1]
    IN  IF parsed.err THEN {Undecoded("return")}
        ELSE IF Len(MapGet(vals, "Action", <<>>)) # 1 \/ Len(MapGet(vals, "Version", <<>>)) # 1
        THEN {Undecoded("return")}
        ELSE IF OperationAt(serviceDef, action).Input.Type = "structure"
        THEN UNION {
                {IF q.kind # "decoded" THEN q ELSE Decoded(action, q.params, <<>>)
                    : q \in ResolveParams(order, 1, vals,
                                OperationAt(serviceDef, action).Input, serviceDef.Shapes, <<>>)}
                : order \in Orders((DOMAIN vals) \ {"Action", "Version"})}
        ELSE {Decoded(action, <<>>, <<>>)}

\* proxy.go:290-394: the protocol branches; a protocol that is none of the
\* four leaves action "*" and both maps empty
Decode(serviceDef, r) ==
    IF serviceDef.Metadata.Protocol = "rest-json" THEN DecodeRestJson(serviceDef, r)
    ELSE IF serviceDef.Metadata.Protocol = "json" THEN DecodeJson(serviceDef, r)
    ELSE IF serviceDef.Metadata.Protocol \in {"ec2", "query"} THEN DecodeQuery(serviceDef, r)
    ELSE {Decoded("*", <<>>, <<>>)}

\* proxy.go:403-411
Entry(region, service, method, parameters, uriParameters, respCode) ==
    [Region |-> region, Type |-> "ProxyCall", Service |-> service, Method |-> method,
     Parameters |-> parameters, URIParameters |-> uriParameters,
     FinalHTTPStatusCode |-> respCode]

\* handleAWSRequest up to the Entry it is about to append: the outcomes are
\* <<"append", entry>>, <<"return">>, <<"panic">> and <<"overflow">>
handleAWSRequest(r, respCode) ==
    LET hostSplit == Split(r.Host, ".")
        serviceDef == SelectServiceDef(EndpointPrefixOf(hostSplit))
    IN  IF ~IsComHost(hostSplit) THEN {<<"return">>}
        ELSE {IF d.kind = "decoded"
              THEN <<"append", Entry(RegionOf(r.Host), serviceDef.Metadata.ServiceID,
                                     d.action, d.params, d.uriparams, respCode)>>
              ELSE <<d.kind>>
              : d \in Decode(serviceDef, r)}

(***************************************************************************)
(* Requests the proxy intercepts.                                          *)
(***************************************************************************)
Request(host, method, requestUri, target, body) ==
    [Host |-> host, Method |-> method, RequestURI |-> requestUri, Target |-> target,
     Body |-> body]

LambdaHost == "lambda.us-west-2.amazonaws.com"
DynamoHost == "dynamodb.us-west-2.amazonaws.com"
Ec2Host == "ec2.us-west-2.amazonaws.com"
DescribeBody == "Action=DescribeInstances&Version=1&Filter.1.Name=n&Filter.2.Name=m&Token=t"

RestJsonRequests ==
    {Request(LambdaHost, "POST", "/functions/myFn/invocations", "", "{\"x\":\"y\"}"),
     Request(LambdaHost, "POST", "/functions/myFn/invocations", "", "5"),
     Request(LambdaHost, "POST", "/functions/myFn/invocations", "", "{bad"),
     Request(LambdaHost, "GET", "/a/b", "", ""),
     Request(LambdaHost, "GET", "/a/c?Marker=m1&marker=m2&Tags.1.Key=k", "", ""),
     Request(LambdaHost, "GET", "/a/c?k=1", "", ""),
     Request(LambdaHost, "GET", "/nomatch", "", ""),
     Request(LambdaHost, "GET", "nopath", "", "")}

JsonRequests ==
    {Request(DynamoHost, "POST", "/", "DynamoDB_20120810.GetItem",
             "{\"a\":{\"b\":[1,2]},\"a.b[]\":null}"),
     Request(DynamoHost, "POST", "/", "GetItem", "{\"x\":\"y\"}"),
     Request(DynamoHost, "POST", "/", "", "{\"x\":\"y\"}"),
     Request(DynamoHost, "POST", "/", "DynamoDB_20120810.GetItem", "{bad"),
     Request(DynamoHost, "POST", "/", "DynamoDB_20120810.GetItem", "5")}

QueryRequests ==
    {Request(Ec2Host, "POST", "/", "", DescribeBody),
     Request(Ec2Host, "POST", "/", "", "Action=DescribeInstances"),
     Request(Ec2Host, "POST", "/", "", "Action=DescribeInstances&Version=1&x=1"),
     Request(Ec2Host, "POST", "/", "", "Action=A&Action=B&Version=1"),
     Request(Ec2Host, "POST", "/", "", "Action=DescribeInstances&Version=1&Filter=%zz"),
     Request("sts.amazonaws.com", "POST", "/", "", "Action=GetCallerIdentity&Version=2011-06-15"),
     Request("sts.amazonaws.com", "POST", "/", "", "Action=AssumeRole&Version=2011-06-15&RoleArn=r")}

OtherRequests ==
    {Request("s3.amazonaws.com", "GET", "/bucket", "", ""),
     Request("foo.us-west-2.amazonaws.com", "GET", "/", "", ""),
     Request("ec2.cn-north-1.amazonaws.com.cn", "POST", "/", "", DescribeBody),
     Request("example.com", "GET", "/", "", "hello")}

Requests == RestJsonRequests \cup JsonRequests \cup QueryRequests \cup OtherRequests

(***************************************************************************)
(* The request handler createProxy registers (proxy.go:155-166), run by    *)
(* one goroutine per intercepted request.  The append of proxy.go:403 is   *)
(* an unsynchronized read of callLog followed by a write of it.            *)
(***************************************************************************)
Handlers == 1..NumHandlers

\* handleAWSRequest(req, body, 200) (proxy.go:160) for every request above
HandleOutcomes == [r \in Requests |-> handleAWSRequest(r, 200)]

Init ==
    /\ HandlersIdle
    /\ rCase = "plain"
    /\ rKey = "Marker"
    /\ rRets = <<>>
    /\ rFrom = <<>>

\* proxy.go:155-159: a request arrives, its body is read, its host is matched
Receive(h) ==
    /\ pc[h] = "idle"
    /\ \E r \in Requests :
        /\ req' = [req EXCEPT ![h] = r]
        /\ pc' = [pc EXCEPT ![h] = IF isAWSHostname(r.Host) THEN "handle" ELSE "forward"]
    /\ UNCHANGED <<callLog, entry, snap, fwd>>
    /\ UNCHANGED resolverVars

\* proxy.go:160, proxy.go:270-402: handleAWSRequest decodes the request
HandleRequest(h) ==
    /\ pc[h] = "handle"
    /\ \E out \in HandleOutcomes[req[h]] :
        IF out[1] = "append"
        THEN /\ entry' = [entry EXCEPT ![h] = <<out[2]>>]
             /\ pc' = [pc EXCEPT ![h] = "append"]
        ELSE /\ entry' = entry
             /\ pc' = [pc EXCEPT ![h] = IF out[1] = "return" THEN "forward" ELSE "crashed"]
    /\ UNCHANGED <<callLog, req, snap, fwd>>
    /\ UNCHANGED resolverVars

\* proxy.go:403: append reads callLog
LoadCallLog(h) ==
    /\ pc[h] = "append"
    /\ snap' = [snap EXCEPT ![h] = callLog]
    /\ pc' = [pc EXCEPT ![h] = "store"]
    /\ UNCHANGED <<callLog, req, entry, fwd>>
    /\ UNCHANGED resolverVars

\* proxy.go:403-413: the appended slice is stored; handleLoggedCall, which
\* reads the log, follows and handleAWSRequest returns
StoreCallLog(h) ==
    /\ pc[h] = "store"
    /\ callLog' = Append(snap[h], entry[h][1])
    /\ pc' = [pc EXCEPT ![h] = "forward"]
    /\ UNCHANGED <<req, entry, snap, fwd>>
    /\ UNCHANGED resolverVars

\* proxy.go:163-165: the body read is put back and the request handed on
Forward(h) ==
    /\ pc[h] = "forward"
    /\ fwd' = [fwd EXCEPT ![h] = <<req[h].Body>>]
    /\ pc' = [pc EXCEPT ![h] = "done"]
    /\ UNCHANGED <<callLog, req, entry, snap>>
    /\ UNCHANGED resolverVars

Next ==
    \E h \in Handlers :
        \/ Receive(h)
        \/ HandleRequest(h)
        \/ LoadCallLog(h)
        \/ StoreCallLog(h)
        \/ Forward(h)

Spec == Init /\ [][Next]_vars

(***************************************************************************)
(* Claims about resolvePropertyName, checked under SpecResolve.            *)
(***************************************************************************)
RunsMade == 1..Len(rRets)

\* C6 as stated: on the input structure with member Filters, a list whose
\* element has a member Name with locationName "FilterName", the key
\* "FilterName[]" resolves to "Filters[].Name".
C6_FilterNameKeyResolves ==
    (rCase = "filters" /\ rKey = "FilterName[]" /\ rFrom = <<>>)
        => \A i \in RunsMade : rRets[i] = Returned("Filters[].Name")

\* C6 as amended: on that input structure the key that resolves to
\* "Filters[].Name" is the full wire path "Filters[].FilterName".
C6_WirePathResolves ==
    (rCase = "filters" /\ rKey = "Filters[].FilterName" /\ rFrom = <<>>)
        => \A i \in RunsMade : rRets[i] = Returned("Filters[].Name")

C6_Witness ==
    /\ rCase = "filters" /\ rKey = "Filters[].FilterName" /\ rFrom = <<>>
    /\ Len(rRets) = MaxRuns

IsIdentifier(name) ==
    /\ name # ""
    /\ Index(name, ".") = -1 /\ Index(name, "[") = -1 /\ Index(name, "]") = -1

RECURSIVE Regular(_, _, _)
\* The unfolding of obj ends within MaxDepth levels, no member carries a
\* locationName or queryName, the members of a structure are identifiers
\* distinct under case folding, every list has an element shape, and no
\* list's element is a list.
Regular(obj, shapes, depth) ==
    LET o == DerefShape(obj, shapes) IN
    /\ depth <= MaxDepth
    /\ o.LocationName = "" /\ o.QueryName = ""
    /\ o.Type = "structure" =>
        /\ \A k \in DOMAIN o.Members : IsIdentifier(k)
        /\ \A k1, k2 \in DOMAIN o.Members : ToLower(k1) = ToLower(k2) => k1 = k2
        /\ \A k \in DOMAIN o.Members : Regular(o.Members[k], shapes, depth + 1)
    /\ o.Type = "list" =>
        /\ o.Member # <<>>
        /\ DerefShape(o.Member[1], shapes).Type # "list"
        /\ Regular(o.Member[1], shapes, depth + 1)

RegularCase(case) == Regular(ResolveCases[case].input, ResolveCases[case].shapes, 0)

\* a path without its trailing [], if it has one
PathStem(p) == IF HasSuffix(p, "[]") THEN SliceTo(p, Len(p) - 2) ELSE p

C8_ResolverTerminates ==
    \A i \in RunsMade : rRets[i].kind # "overflow"

\* C9: two runs of resolvePropertyName on the same shape, shape table and
\* key that return, return the same path.
C9_Deterministic ==
    \A i, j \in RunsMade :
        (rRets[i].kind = "return" /\ rRets[j].kind = "return") => rRets[i] = rRets[j]

(***************************************************************************)
(* Claims about the request handler and handleAWSRequest, checked under    *)
(* Spec.                                                                   *)
(***************************************************************************)
\* the service definition the host of r selects
ServiceDefOf(r) == SelectServiceDef(EndpointPrefixOf(Split(r.Host, ".")))

\* the host of r ends in amazonaws.com and a loaded definition has its prefix
ServiceSelected(r) ==
    /\ IsComHost(Split(r.Host, "."))
    /\ \E i \in 1..Len(serviceDefinitions) :
        serviceDefinitions[i].Metadata.EndpointPrefix = EndpointPrefixOf(Split(r.Host, "."))

\* the decoded JSON root of the body is neither an object nor an array
RootIsScalar(body) ==
    ~jsonUnmarshal(body).err /\ jsonUnmarshal(body).bodyJSON.t \notin {"object", "array"}

\* the decode failures C3 lists, by the protocol of the selected definition
\* (an unparsable request URI is counted with them)
DecodeFails(r) ==
    LET protocol == ServiceDefOf(r).Metadata.Protocol
        urlobj == ParseRequestURI(r.RequestURI)
        vals == ParseQuery(r.Body).vals
    IN  \/ /\ protocol = "rest-json"
           /\ \/ urlobj.err
              \/ r.Body # "" /\ (jsonUnmarshal(r.Body).err \/ RootIsScalar(r.Body))
              \/ ~\E name \in DOMAIN ServiceDefOf(r).Operations :
                    /\ ServiceDefOf(r).Operations[name].Http.Method = r.Method
                    /\ pathMatchSuccess(ServiceDefOf(r).Operations[name].Http.RequestURI,
                                        urlobj.Path)
        \/ /\ protocol = "json"
           /\ (jsonUnmarshal(r.Body).err \/ RootIsScalar(r.Body) \/ r.Target = "")
        \/ /\ protocol \in {"query", "ec2"}
           /\ \/ ParseQuery(r.Body).err
              \/ Len(MapGet(vals, "Action", <<>>)) # 1
              \/ Len(MapGet(vals, "Version", <<>>)) # 1

\* C1: when every handler has finished, the call log holds one record for
\* each handler that decoded its request: no append is lost.
C1_NoAppendLost ==
    (\A h \in Handlers : pc[h] = "done")
        => Len(callLog) = Cardinality({h \in Handlers : entry[h] # <<>>})

\* C2: no handler is interrupted by the decoding, and a request handed on
\* carries the body that was read.
C2_DecodingNeverInterrupts ==
    \A h \in Handlers :
        /\ pc[h] # "crashed"
        /\ pc[h] = "done" => fwd[h] = <<req[h].Body>>

\* C3: a handled request whose host selects a service definition appends no
\* record when its decoding fails and one record otherwise.
C3_RecordIffDecoded ==
    \A h \in Handlers :
        (pc[h] = "done" /\ ServiceSelected(req[h]))
            => (entry[h] = <<>> <=> DecodeFails(req[h]))

\* C4: a handled request whose host ends in amazonaws.com while no loaded
\* definition has the derived prefix appends nothing.
C4_NoServiceNoRecord ==
    \A h \in Handlers :
        (pc[h] = "done" /\ IsComHost(Split(req[h].Host, ".")) /\ ~ServiceSelected(req[h]))
            => entry[h] = <<>>

\* the request with the .cn of its host taken off
WithoutCn(r) == [r EXCEPT !.Host = SliceTo(r.Host, Len(r.Host) - 3)]

\* C5: a handled request to an amazonaws.com.cn host whose prefix selects a
\* definition and whose decoding does not fail appends a record.
C5_CnHostsAreCandidates ==
    \A h \in Handlers :
        (/\ pc[h] = "done"
         /\ HasSuffix(req[h].Host, ".amazonaws.com.cn")
         /\ ServiceSelected(WithoutCn(req[h]))
         /\ ~DecodeFails(WithoutCn(req[h])))
            => entry[h] # <<>>

\* the placeholder bindings of the operation named action, for the request r
BindingsOf(r, action) ==
    IF action \in DOMAIN ServiceDefOf(r).Operations
    THEN BindPlaceholders(Split(ServiceDefOf(r).Operations[action].Http.RequestURI, "/"),
                          Split(ParseRequestURI(r.RequestURI).Path, "/"), 1, <<>>)
    ELSE <<>>

\* C10: under rest-json the uriParameters of a record are the bindings of
\* the operation that is its action, and no other operation's.
C10_UriParametersOfAction ==
    \A h \in Handlers :
        (entry[h] # <<>> /\ ServiceDefOf(req[h]).Metadata.Protocol = "rest-json")
            => entry[h][1].URIParameters = BindingsOf(req[h], entry[h][1].Method)

====
